---- MODULE Spec2Model ----
(***************************************************************************)
(* Model of package photos (photos/upload.go): the concurrent upload       *)
(* pipeline UploadFiles / uploadWorker / UploadFile and the commit step     *)
(* Append / findMediaItemByUploadToken.                                     *)
(*                                                                          *)
(* Strings that the code takes apart (file paths) are sequences of          *)
(* one-character strings; opaque strings (tokens, messages) are strings.    *)
(* A Go pointer or error is a sequence of length 0 (nil) or 1.              *)
(***************************************************************************)
EXTENDS Integers, Sequences, FiniteSets, Bags, TLC

\* ------------------------------------------------------------------ bounds
MaxFiles == 3
MaxLiveFiles == 2
MaxItems == 2
MaxPathLen == 3

\* --------------------------------------------------------------- constants
\* (mutant: one worker more than the configured concurrency)
uploadConcurrency_OneMore == 3 + 1
uploadConcurrency == 3
StatusOK == 200

Workers == 1..uploadConcurrency

Nil == <<>>
Some(x) == <<x>>

\* ------------------------------------------------------------ input domains
\* the statuses the remote service answers with: 200 and, for one that is not, 403
StatusCodes == { StatusOK, 403 }
\* what the remote service answers: an upload token with 200, a text otherwise
Bodies(status) == IF status = StatusOK THEN { "t1", "t2" } ELSE { "denied" }

\* The input lists: every prefix, up to MaxFiles paths, of a repeating pattern of
\* paths in which a path occurs twice and two paths have different base names.
PathPattern == << <<"a">>, <<"d", "/", "b">>, <<"a">>, <<"d", "/", "c">> >>
FilepathsOfLen(n) == [k \in 1..n |-> PathPattern[((k - 1) % Len(PathPattern)) + 1]]
FilepathLists == { FilepathsOfLen(n) : n \in 0..MaxFiles }

RECURSIVE SeqsUpTo(_, _)
SeqsUpTo(S, n) ==
    IF n = 0 THEN { <<>> }
    ELSE LET shorter == SeqsUpTo(S, n - 1)
         IN  shorter \cup { Append(t, x) : t \in { u \in shorter : Len(u) = n - 1 }, x \in S }

\* Source paths taken one at a time: up to MaxPathLen characters, among them both
\* the slash and the backslash.
PathChars == { "a", "b", "/", "\\" }
SourcePaths == SeqsUpTo(PathChars, MaxPathLen)

\* The arguments of Append: nil or an album, and up to MaxItems items.
Albums == { Nil, Some([Id |-> "album1"]) }
Descriptions == { <<"a">>, <<"b">> }
Tokens == { "t1", "t2" }
ItemLists == SeqsUpTo([Description : Descriptions, UploadToken : Tokens], MaxItems)

\* What BatchCreate answers: up to MaxItems results, each with an upload token
\* (one of them unknown to the caller) and a status.
ResultTokens == Tokens \cup { "t9" }
Statuses == { [Code |-> 0, Message |-> "OK"], [Code |-> 5, Message |-> "NOT_FOUND"] }
ResultLists == SeqsUpTo([UploadToken : ResultTokens, Status : Statuses], MaxItems)

\* ------------------------------------------------------------ pure helpers
\* path.Base of the standard library, as called at upload.go:67.
RECURSIVE StripTrailingSlashes(_)
StripTrailingSlashes(p) ==
    IF Len(p) > 0 /\ p[Len(p)] = "/" THEN StripTrailingSlashes(SubSeq(p, 1, Len(p) - 1))
    ELSE p

LastIndex(p, c) ==
    LET hits == { k \in 1..Len(p) : p[k] = c }
    IN  IF hits = {} THEN 0 ELSE CHOOSE k \in hits : \A j \in hits : j <= k

Base(p) ==
    IF p = <<>> THEN <<".">>
    ELSE LET s == StripTrailingSlashes(p)
             k == LastIndex(s, "/")
             t == IF k > 0 THEN SubSeq(s, k + 1, Len(s)) ELSE s
         IN  IF t = <<>> THEN <<"/">> ELSE t

\* fmt.Errorf / log.Printf: the format string, then its arguments.
Errorf(f, args) == << f >> \o args
Printf(f, args) == << f >> \o args

NewMediaItem(description, token) == [Description |-> description, UploadToken |-> token]

\* A Go slice: nil or not, and its elements.
NilSlice == [isNil |-> TRUE, elems |-> <<>>]
MakeSlice == [isNil |-> FALSE, elems |-> <<>>]
\* (mutant: the element replaces the slice's contents instead of being appended)
AppendSlice_Overwrite(s, x) == [isNil |-> FALSE, elems |-> << x >>]
AppendSlice_Dedup(s, x) ==
    IF \E n \in 1..Len(s.elems) : s.elems[n].Description = x.Description
    THEN s
    ELSE [isNil |-> FALSE, elems |-> Append(s.elems, x)]
AppendSlice_Prepend(s, x) == [isNil |-> FALSE, elems |-> << x >> \o s.elems]
AppendSlice(s, x) == [isNil |-> FALSE, elems |-> Append(s.elems, x)]

RECURSIVE SeqToBag(_)
SeqToBag(s) == IF s = <<>> THEN EmptyBag ELSE SeqToBag(Tail(s)) (+) SetToBag({ Head(s) })

VARIABLES
    filepaths,          \* argument of UploadFiles
    pc,                 \* position of the UploadFiles goroutine
    i,                  \* loop counter of UploadFiles (lines 23 and 31)
    uploadQueue,        \* buffered channel of paths: its buffer
    uploadQueueClosed,
    aggregateQueue,     \* buffered channel of items: its buffer
    aggregateClosed,
    workerGroup,        \* sync.WaitGroup counter
    supPc,              \* position of the anonymous goroutine (lines 35-38)
    mediaItems,         \* the slice UploadFiles collects into and returns
    wpc,                \* position of each uploadWorker goroutine
    wpath,              \* filepath of the worker's current UploadFile call
    wdefers,            \* deferred calls of the worker's current UploadFile call
    wres,               \* res of the current call: nil or a response with its status
    wret,               \* what the current UploadFile call returned
    openFiles,          \* per worker: file handles it opened and has not closed
    openBodies,         \* per worker: response bodies it got and has not closed
    log,                \* lines written to p.log, as a bag (their order is not kept)
    invoked,            \* history: bag of paths UploadFile was called with
    returned,           \* history: bag of UploadFile calls that returned: the path,
                        \* what the file system and the service did, item and err
    published,          \* history: items sent on aggregateQueue, in order
    closes,             \* history: number of close(aggregateQueue) calls
    apc,                \* position of an Append call
    album,              \* argument of Append: nil or an album
    newMediaItems,      \* argument of Append: the items to add
    calls,              \* history: the requests BatchCreate was called with
    batch,              \* the response of BatchCreate
    resultIdx,          \* Append's position in batch.NewMediaItemResults
    appendErr,          \* the error Append returned
    callErr,            \* history: the error BatchCreate returned
    attributed,         \* history: per logged result, its index and the line
    source,             \* a path a single item is staged for
    staged              \* nil, or the item UploadFile builds for source

baseVars == << source, staged >>

appendVars == << apc, album, newMediaItems, calls, batch, resultIdx, appendErr, callErr,
                 attributed >>

vars == << baseVars, appendVars, filepaths, pc, i, uploadQueue, uploadQueueClosed, aggregateQueue,
           aggregateClosed, workerGroup, supPc, mediaItems, wpc, wpath, wdefers,
           wres, wret, openFiles, openBodies, log, invoked, returned, published,
           closes >>

mainVars == << pc, i, mediaItems >>
workerVars == << wpc, wpath, wdefers, wres, wret >>
handleVars == << openFiles, openBodies >>
histVars == << invoked, returned, published, closes >>

\* (mutant: the line is not written)
Logged_Lost(line) == log
\* p.log.Printf: one more line in the log
Logged(line) == log (+) SetToBag({ line })

\* the locals of one iteration of the worker's loop, before they are assigned
NoReturn == [item |-> Nil, err |-> Nil]

\* (mutant: make(chan string), an unbuffered channel)
QueueCap_Unbuffered == Len(filepaths) - Len(filepaths)
\* uploadQueue := make(chan string, len(filepaths)): the capacity of the work queue
QueueCap == Len(filepaths)

\* (mutant: make(chan *NewMediaItem), an unbuffered channel)
AggregateCap_Unbuffered == Len(filepaths) - Len(filepaths)
\* aggregateQueue := make(chan *NewMediaItem, len(filepaths)): the capacity of
\* the result channel
AggregateCap == Len(filepaths)

\* no Append call is under way
AppendIdle ==
    /\ apc = "idle"
    /\ album = Nil
    /\ newMediaItems = <<>>
    /\ calls = <<>>
    /\ batch = <<>>
    /\ resultIdx = 0
    /\ appendErr = Nil
    /\ callErr = Nil
    /\ attributed = <<>>

\* no single item is being staged
BaseIdle ==
    /\ source = <<>>
    /\ staged = Nil

\* the state of the pipeline before UploadFiles has done anything
UploadFilesIdle ==
    /\ i = 1
    /\ uploadQueue = <<>>
    /\ uploadQueueClosed = FALSE
    /\ aggregateQueue = <<>>
    /\ aggregateClosed = FALSE
    /\ workerGroup = 0
    /\ supPc = "none"
    /\ mediaItems = NilSlice
    /\ wpc = [w \in Workers |-> "none"]
    /\ wpath = [w \in Workers |-> <<>>]
    /\ wdefers = [w \in Workers |-> <<>>]
    /\ wres = [w \in Workers |-> Nil]
    /\ wret = [w \in Workers |-> NoReturn]
    /\ openFiles = [w \in Workers |-> 0]
    /\ openBodies = [w \in Workers |-> 0]
    /\ log = EmptyBag
    /\ invoked = EmptyBag
    /\ returned = EmptyBag
    /\ published = <<>>
    /\ closes = 0

Init ==
    /\ filepaths \in FilepathLists
    /\ pc = "enqueue"
    /\ UploadFilesIdle
    /\ AppendIdle
    /\ BaseIdle


\* ------------------------------------------------- UploadFiles (lines 21-45)
\* for _, filepath := range filepaths { uploadQueue <- filepath }
Enqueue ==
    /\ pc = "enqueue"
    /\ i <= Len(filepaths)
    /\ ~uploadQueueClosed
    /\ Len(uploadQueue) < QueueCap
    /\ uploadQueue' = Append(uploadQueue, filepaths[i])
    /\ i' = i + 1
    /\ UNCHANGED << baseVars, appendVars, filepaths, pc, uploadQueueClosed, aggregateQueue, aggregateClosed,
                    workerGroup, supPc, mediaItems, workerVars, handleVars, log, histVars >>

\* close(uploadQueue); p.log.Printf("Queued ..."); aggregateQueue := make(...);
\* workerGroup := new(sync.WaitGroup)
CloseUploadQueue ==
    /\ pc = "enqueue"
    /\ i > Len(filepaths)
    /\ uploadQueueClosed' = TRUE
    /\ log' = Logged(Printf("Queued %d file(s)", << Len(filepaths) >>))
    /\ aggregateQueue' = <<>>
    /\ workerGroup' = 0
    /\ pc' = "spawn"
    /\ i' = 0
    /\ UNCHANGED << baseVars, appendVars, filepaths, uploadQueue, aggregateClosed, supPc, mediaItems,
                    workerVars, handleVars, histVars >>

\* workerGroup.Add(1); go p.uploadWorker(...)
SpawnWorker ==
    /\ pc = "spawn"
    /\ i < uploadConcurrency
    /\ workerGroup' = workerGroup + 1
    /\ wpc' = [wpc EXCEPT ![i + 1] = "recv"]
    /\ i' = i + 1
    /\ UNCHANGED << baseVars, appendVars, filepaths, pc, uploadQueue, uploadQueueClosed, aggregateQueue,
                    aggregateClosed, supPc, mediaItems, wpath, wdefers, wres, wret,
                    handleVars, log, histVars >>

\* (mutant: var mediaItems []*NewMediaItem, a nil slice)
MakeMediaItems_Nil == NilSlice
\* mediaItems := make([]*NewMediaItem, 0, len(filepaths))
MakeMediaItems == MakeSlice

\* go func() { ... }(); mediaItems := make(...)
SpawnSupervisor ==
    /\ pc = "spawn"
    /\ i >= uploadConcurrency
    /\ supPc' = "wait"
    /\ mediaItems' = MakeMediaItems
    /\ pc' = "collect"
    /\ UNCHANGED << baseVars, appendVars, filepaths, i, uploadQueue, uploadQueueClosed, aggregateQueue,
                    aggregateClosed, workerGroup, workerVars, handleVars, log, histVars >>

\* for mediaItem := range aggregateQueue { mediaItems = append(mediaItems, mediaItem) }
Collect ==
    /\ pc = "collect"
    /\ aggregateQueue # <<>>
    /\ mediaItems' = AppendSlice(mediaItems, Head(aggregateQueue))
    /\ aggregateQueue' = Tail(aggregateQueue)
    /\ UNCHANGED << baseVars, appendVars, filepaths, pc, i, uploadQueue, uploadQueueClosed, aggregateClosed,
                    workerGroup, supPc, workerVars, handleVars, log, histVars >>

\* the range loop ends when the channel is closed and drained; return mediaItems
ReturnMediaItems ==
    /\ pc = "collect"
    /\ aggregateQueue = <<>>
    /\ aggregateClosed
    /\ pc' = "done"
    /\ UNCHANGED << baseVars, appendVars, filepaths, i, uploadQueue, uploadQueueClosed, aggregateQueue,
                    aggregateClosed, workerGroup, supPc, mediaItems, workerVars,
                    handleVars, log, histVars >>

\* ----------------------------------------- anonymous goroutine (lines 35-38)
\* (mutant: the channel is closed without waiting for the workers)
WaitReturns_NoWait == TRUE
\* workerGroup.Wait() returns once the counter is zero
WaitReturns == workerGroup = 0

\* workerGroup.Wait()
SupervisorWait ==
    /\ supPc = "wait"
    /\ WaitReturns
    /\ supPc' = "close"
    /\ UNCHANGED << baseVars, appendVars, filepaths, mainVars, uploadQueue, uploadQueueClosed, aggregateQueue,
                    aggregateClosed, workerGroup, workerVars, handleVars, log, histVars >>

\* close(aggregateQueue); closing a closed channel panics
SupervisorClose ==
    /\ supPc = "close"
    /\ supPc' = IF aggregateClosed THEN "panic" ELSE "done"
    /\ aggregateClosed' = TRUE
    /\ closes' = closes + 1
    /\ UNCHANGED << baseVars, appendVars, filepaths, mainVars, uploadQueue, uploadQueueClosed, aggregateQueue,
                    workerGroup, workerVars, handleVars, log, invoked, returned,
                    published >>


\* ------------------------------------------------ uploadWorker (lines 47-57)
\* (mutant: a receive drops the path behind the one it takes)
AfterReceive_SkipOne(q) == IF Len(q) >= 2 THEN Tail(Tail(q)) ELSE Tail(q)
\* for filepath := range uploadQueue: what is left in the buffer after a receive
AfterReceive(q) == Tail(q)

\* for filepath := range uploadQueue { mediaItem, err := p.UploadFile(filepath)
Receive(w) ==
    /\ wpc[w] = "recv"
    /\ uploadQueue # <<>>
    /\ wpath' = [wpath EXCEPT ![w] = Head(uploadQueue)]
    /\ uploadQueue' = AfterReceive(uploadQueue)
    /\ invoked' = invoked (+) SetToBag({ Head(uploadQueue) })
    /\ wpc' = [wpc EXCEPT ![w] = "open"]
    /\ UNCHANGED << baseVars, appendVars, filepaths, mainVars, uploadQueueClosed, aggregateQueue,
                    aggregateClosed, workerGroup, supPc, wdefers, wres, wret,
                    handleVars, log, returned, published, closes >>

\* (mutant: the worker never calls Done)
AfterDone_Missing(n) == n
\* defer workerGroup.Done()
AfterDone(n) == n - 1

\* the range loop ends on a closed, drained queue; the deferred Done runs
WorkerExit(w) ==
    /\ wpc[w] = "recv"
    /\ uploadQueue = <<>>
    /\ uploadQueueClosed
    /\ workerGroup' = AfterDone(workerGroup)
    /\ wpc' = [wpc EXCEPT ![w] = "done"]
    /\ UNCHANGED << baseVars, appendVars, filepaths, mainVars, uploadQueue, uploadQueueClosed, aggregateQueue,
                    aggregateClosed, supPc, wpath, wdefers, wres, wret, handleVars,
                    log, histVars >>

\* else { aggregateQueue <- mediaItem }: blocks while the buffer is full, panics
\* when the channel is closed
Publish(w) ==
    /\ wpc[w] = "returned"
    /\ wret[w].err = Nil
    /\ \/ /\ aggregateClosed
          /\ wpc' = [wpc EXCEPT ![w] = "panic"]
          /\ UNCHANGED << aggregateQueue, published, wpath, wret >>
       \/ /\ ~aggregateClosed
          /\ Len(aggregateQueue) < AggregateCap
          /\ aggregateQueue' = Append(aggregateQueue, wret[w].item[1])
          /\ published' = Append(published, wret[w].item[1])
          /\ wpc' = [wpc EXCEPT ![w] = "recv"]
          /\ wpath' = [wpath EXCEPT ![w] = <<>>]
          /\ wret' = [wret EXCEPT ![w] = NoReturn]
    /\ UNCHANGED << baseVars, appendVars, filepaths, mainVars, uploadQueue, uploadQueueClosed, aggregateClosed,
                    workerGroup, supPc, wdefers, wres, handleVars, log,
                    invoked, returned, closes >>

\* mediaItem, err := p.UploadFile(filepath); if err != nil { p.log.Printf(...) }:
\* the worker takes what the call returned, and on an error logs it and goes on
\* with the next path (lines 50-52)
AfterUploadFile(w, item, err) ==
    IF err # Nil
    THEN /\ log' = Logged(Printf("Error while uploading file %s: %s",
                                 << wpath[w], err[1] >>))
         /\ wpc' = [wpc EXCEPT ![w] = "recv"]
         /\ wpath' = [wpath EXCEPT ![w] = <<>>]
         /\ wret' = [wret EXCEPT ![w] = NoReturn]
    ELSE /\ wret' = [wret EXCEPT ![w] = [item |-> item, err |-> err]]
         /\ wpc' = [wpc EXCEPT ![w] = "returned"]
         /\ UNCHANGED << log, wpath >>

\* --------------------------------------------------- UploadFile (lines 60-96)
Count(s, x) == Cardinality({ k \in 1..Len(s) : s[k] = x })

\* What the file system and the remote service did during one call: whether the
\* file opened, the request was built, the transfer completed and the body was
\* read, and the status and body of the response (0 and "" when there is none).
Env(opened, built, sent, read, status, body) ==
    [opened |-> opened, built |-> built, sent |-> sent, read |-> read,
     status |-> status, body |-> body]

\* defer r.Close() and defer res.Body.Close(): the calls pending at return
DeferFileClose(d) == Append(d, "r.Close")
\* (mutant: the response body's Close is not deferred)
DeferBodyClose_Missing(d) == d
DeferBodyClose(d) == Append(d, "res.Body.Close")

\* a return statement of UploadFile: the deferred calls run, then the caller has
\* the values
Return(w, env, item, err) ==
    /\ openFiles' = [openFiles EXCEPT ![w] = @ - Count(wdefers[w], "r.Close")]
    /\ openBodies' = [openBodies EXCEPT ![w] = @ - Count(wdefers[w], "res.Body.Close")]
    /\ wdefers' = [wdefers EXCEPT ![w] = <<>>]
    /\ wres' = [wres EXCEPT ![w] = Nil]
    /\ returned' = returned (+) SetToBag({ [path |-> wpath[w], env |-> env,
                                           item |-> item, err |-> err] })
    /\ AfterUploadFile(w, item, err)

\* r, err := os.Open(filepath); defer r.Close()
OpenFile(w) ==
    /\ wpc[w] = "open"
    /\ \/ Return(w, Env(FALSE, FALSE, FALSE, FALSE, 0, ""), Nil,
                 Some(Errorf("Could not open file %s: %s", << wpath[w], "open error" >>)))
       \/ /\ openFiles' = [openFiles EXCEPT ![w] = @ + 1]
          /\ wdefers' = [wdefers EXCEPT ![w] = DeferFileClose(@)]
          /\ wpc' = [wpc EXCEPT ![w] = "newreq"]
          /\ UNCHANGED << wpath, wres, wret, openBodies, returned, log >>
    /\ UNCHANGED << baseVars, appendVars, filepaths, mainVars, uploadQueue, uploadQueueClosed, aggregateQueue,
                    aggregateClosed, workerGroup, supPc, invoked, published, closes >>

\* req, err := http.NewRequest(...); req.Header.Add(...); p.log.Printf("Uploading %s")
NewRequest(w) ==
    /\ wpc[w] = "newreq"
    /\ \/ Return(w, Env(TRUE, FALSE, FALSE, FALSE, 0, ""), Nil,
                 Some(Errorf("Could not create a request for uploading file %s: %s",
                             << wpath[w], "request error" >>)))
       \/ /\ log' = Logged(Printf("Uploading %s", << wpath[w] >>))
          /\ wpc' = [wpc EXCEPT ![w] = "do"]
          /\ UNCHANGED << wpath, wdefers, wres, wret, handleVars, returned >>
    /\ UNCHANGED << baseVars, appendVars, filepaths, mainVars, uploadQueue, uploadQueueClosed, aggregateQueue,
                    aggregateClosed, workerGroup, supPc, invoked, published, closes >>

\* res, err := p.client.Do(req); defer res.Body.Close()
Do(w) ==
    /\ wpc[w] = "do"
    /\ \/ Return(w, Env(TRUE, TRUE, FALSE, FALSE, 0, ""), Nil,
                 Some(Errorf("Could not send a request for uploading file %s: %s",
                             << wpath[w], "transport error" >>)))
       \/ /\ \E status \in StatusCodes :
                wres' = [wres EXCEPT ![w] = Some([StatusCode |-> status])]
          /\ openBodies' = [openBodies EXCEPT ![w] = @ + 1]
          /\ wdefers' = [wdefers EXCEPT ![w] = DeferBodyClose(@)]
          /\ wpc' = [wpc EXCEPT ![w] = "read"]
          /\ UNCHANGED << wpath, wret, openFiles, returned, log >>
    /\ UNCHANGED << baseVars, appendVars, filepaths, mainVars, uploadQueue, uploadQueueClosed, aggregateQueue,
                    aggregateClosed, workerGroup, supPc, invoked, published, closes >>

\* (mutant: the status is not checked)
UploadResult_AnyStatus(filepath, status, body) ==
    [item |-> Some(NewMediaItem(Base(filepath), body)), err |-> Nil]

\* if res.StatusCode != 200 { return nil, error } return &NewMediaItem{...}, nil
UploadResult(filepath, status, body) ==
    IF status # StatusOK
    THEN [item |-> Nil,
          err |-> Some(Errorf("Could not upload file %s: status=%d, body=%s",
                              << filepath, status, body >>))]
    ELSE [item |-> Some(NewMediaItem(Base(filepath), body)), err |-> Nil]

\* b, err := ioutil.ReadAll(res.Body); body := string(b); the status check; return
ReadAll(w) ==
    /\ wpc[w] = "read"
    /\ LET status == wres[w][1].StatusCode
       IN  \/ Return(w, Env(TRUE, TRUE, TRUE, FALSE, status, ""), Nil,
                     Some(Errorf(
                         "Could not read the response body while uploading file %s: status=%d, %s",
                         << wpath[w], status, "read error" >>)))
           \/ \E body \in Bodies(status) :
                  LET r == UploadResult(wpath[w], status, body)
                  IN  Return(w, Env(TRUE, TRUE, TRUE, TRUE, status, body), r.item, r.err)
    /\ UNCHANGED << baseVars, appendVars, filepaths, mainVars, uploadQueue, uploadQueueClosed, aggregateQueue,
                    aggregateClosed, workerGroup, supPc, invoked, published, closes >>

\* --------------------------------------------------------------- the system
Main ==
    \/ Enqueue
    \/ CloseUploadQueue
    \/ SpawnWorker
    \/ SpawnSupervisor
    \/ Collect
    \/ ReturnMediaItems

Supervisor ==
    \/ SupervisorWait
    \/ SupervisorClose

Worker(w) ==
    \/ Receive(w)
    \/ WorkerExit(w)
    \/ Publish(w)
    \/ OpenFile(w)
    \/ NewRequest(w)
    \/ Do(w)
    \/ ReadAll(w)

Next ==
    \/ Main
    \/ Supervisor
    \/ \E w \in Workers : Worker(w)

Spec == Init /\ [][Next]_vars


\* ------------------------------------------------------ Append (lines 101-122)
pipelineVars == << filepaths, mainVars, uploadQueue, uploadQueueClosed, aggregateQueue,
                   aggregateClosed, workerGroup, supPc, workerVars, handleVars,
                   histVars >>

\* (mutant: the item at the front is returned whatever its token)
findMediaItemByUploadToken_Last(items, uploadToken) ==
    LET hits == { n \in 1..Len(items) : items[n].UploadToken = uploadToken }
    IN  IF hits = {} THEN Nil
        ELSE Some(items[CHOOSE n \in hits : \A m \in hits : n >= m])

findMediaItemByUploadToken_Front(items, uploadToken) ==
    IF items = <<>> THEN Nil ELSE Some(items[1])

\* findMediaItemByUploadToken (lines 124-131): the first item with the token, or nil
findMediaItemByUploadToken(items, uploadToken) ==
    LET hits == { n \in 1..Len(items) : items[n].UploadToken = uploadToken }
    IN  IF hits = {} THEN Nil
        ELSE Some(items[CHOOSE n \in hits : \A m \in hits : n <= m])

\* (mutant: the album is left out of the request)
BatchCreateRequest_NoAlbum(a, items) == [NewMediaItems |-> items, AlbumId |-> ""]

\* req := &BatchCreateMediaItemsRequest{NewMediaItems: mediaItems};
\* if album != nil { req.AlbumId = album.Id }
BatchCreateRequest(a, items) ==
    [NewMediaItems |-> items, AlbumId |-> IF a # Nil THEN a[1].Id ELSE ""]

\* batch, err := p.service.MediaItems.BatchCreate(req).Do(); if err != nil { return err }
BatchCreate ==
    /\ apc = "call"
    /\ calls' = Append(calls, BatchCreateRequest(album, newMediaItems))
    /\ \/ /\ callErr' = Some("batch create error")
          /\ appendErr' = callErr'
          /\ apc' = "done"
          /\ UNCHANGED << batch, resultIdx >>
       \/ /\ batch' \in ResultLists
          /\ resultIdx' = 1
          /\ apc' = "results"
          /\ UNCHANGED << callErr, appendErr >>
    /\ UNCHANGED << album, newMediaItems, attributed, log, pipelineVars, baseVars >>

\* (mutant: a result whose token is unknown is logged without its code)
SkipLine_NoCode(items, result) ==
    LET mediaItem == findMediaItemByUploadToken(items, result.UploadToken)
    IN  IF mediaItem # Nil
        THEN Printf("Skipped %s: %s (%d)",
                    << mediaItem[1].Description, result.Status.Message, result.Status.Code >>)
        ELSE Printf("Error while adding files: %s", << result.Status.Message >>)

\* the line Append logs for one result with a non-zero status code
SkipLine(items, result) ==
    LET mediaItem == findMediaItemByUploadToken(items, result.UploadToken)
    IN  IF mediaItem # Nil
        THEN Printf("Skipped %s: %s (%d)",
                    << mediaItem[1].Description, result.Status.Message, result.Status.Code >>)
        ELSE Printf("Error while adding files: %s (%d)",
                    << result.Status.Message, result.Status.Code >>)

\* (mutant: every result is treated as skipped)
Skipped_Always(result) == TRUE

\* if result.Status.Code != 0
Skipped(result) == result.Status.Code # 0

\* one iteration of: for _, result := range batch.NewMediaItemResults { ... }
HandleResult ==
    /\ apc = "results"
    /\ resultIdx <= Len(batch)
    /\ LET result == batch[resultIdx]
       IN  IF Skipped(result)
           THEN /\ log' = Logged(SkipLine(newMediaItems, result))
                /\ attributed' = Append(attributed,
                       [index |-> resultIdx, line |-> SkipLine(newMediaItems, result)])
           ELSE UNCHANGED << log, attributed >>
    /\ resultIdx' = resultIdx + 1
    /\ UNCHANGED << apc, album, newMediaItems, calls, batch, appendErr, callErr,
                    pipelineVars, baseVars >>

\* (mutant: a skipped item makes Append fail)
AfterResults_FailOnSkipped(results) ==
    IF \E n \in 1..Len(results) : results[n].Status.Code # 0
    THEN Some("some items were skipped") ELSE Nil

\* what Append returns after the loop over the results
AfterResults(results) == Nil

\* return nil
AppendReturn ==
    /\ apc = "results"
    /\ resultIdx > Len(batch)
    /\ appendErr' = AfterResults(batch)
    /\ apc' = "done"
    /\ UNCHANGED << album, newMediaItems, calls, batch, resultIdx, callErr, attributed,
                    log, pipelineVars, baseVars >>

\* Append has been called with an album (or nil) and a list of items
InitAppend ==
    /\ album \in Albums
    /\ newMediaItems \in ItemLists
    /\ apc = "call"
    /\ calls = <<>>
    /\ batch = <<>>
    /\ resultIdx = 0
    /\ appendErr = Nil
    /\ callErr = Nil
    /\ attributed = <<>>
    /\ filepaths = <<>>
    /\ pc = "idle"
    /\ UploadFilesIdle
    /\ BaseIdle

NextAppend ==
    \/ BatchCreate
    \/ HandleResult
    \/ AppendReturn

SpecAppend == InitAppend /\ [][NextAppend]_vars


\* UploadFiles called with one path more than there are workers
InitSaturated ==
    /\ filepaths = FilepathsOfLen(uploadConcurrency + 1)
    /\ pc = "enqueue"
    /\ UploadFilesIdle
    /\ AppendIdle
    /\ BaseIdle

SpecSaturated == InitSaturated /\ [][Next]_vars

\* UploadFiles called with up to MaxLiveFiles paths
InitLive ==
    /\ filepaths \in { FilepathsOfLen(n) : n \in 0..MaxLiveFiles }
    /\ pc = "enqueue"
    /\ UploadFilesIdle
    /\ AppendIdle
    /\ BaseIdle

\* The Go scheduler runs every goroutine that can take a step, and every
\* os.Open, client.Do and ReadAll call returns.
LiveSpec ==
    /\ InitLive
    /\ [][Next]_vars
    /\ WF_vars(Main)
    /\ WF_vars(Supervisor)
    /\ \A w \in Workers : WF_vars(Worker(w))

\* ------------------------------------- the item UploadFile builds for one path
\* filename := path.Base(filepath) ... return &NewMediaItem{Description: filename, ...}
StageItem ==
    /\ staged = Nil
    /\ staged' = UploadResult(source, StatusOK, "t1").item
    /\ UNCHANGED << source, appendVars, pipelineVars, log >>

\* one path whose upload is about to succeed
InitBase ==
    /\ source \in SourcePaths
    /\ staged = Nil
    /\ filepaths = <<>>
    /\ pc = "idle"
    /\ UploadFilesIdle
    /\ AppendIdle

NextBase == StageItem

SpecBase == InitBase /\ [][NextBase]_vars

\* -------------------------------------------------------------- properties
Range(s) == { s[n] : n \in 1..Len(s) }

RECURSIVE SumOver(_, _)
SumOver(f, S) ==
    IF S = {} THEN 0
    ELSE LET x == CHOOSE y \in S : TRUE IN f[x] + SumOver(f, S \ { x })

\* the calls of UploadFile that returned an item, and the bag of those items
Successes == { r \in DOMAIN returned : r.err = Nil /\ r.item # Nil }
Failures == { r \in DOMAIN returned : r.err # Nil }
SuccessItems ==
    [x \in { r.item[1] : r \in Successes } |->
        SumOver(returned, { r \in Successes : r.item[1] = x })]
ReturnedPaths ==
    [x \in { r.path : r \in DOMAIN returned } |->
        SumOver(returned, { r \in DOMAIN returned : r.path = x })]

UploadFilesDone == pc = "done"
InUploadFile(w) == wpc[w] \in { "open", "newreq", "do", "read" }
InFlight == Cardinality({ w \in Workers : InUploadFile(w) })

\* C1: the result of UploadFiles is never longer than the input; it holds only
\* items that successful UploadFile calls on input paths returned, none more often
\* than such calls returned it; and when UploadFiles returns, it holds every such
\* item exactly as often as it was returned.
C1_ResultIsSuccessfulUploads ==
    /\ Len(mediaItems.elems) <= Len(filepaths)
    /\ \A r \in DOMAIN returned : r.path \in Range(filepaths)
    /\ SeqToBag(mediaItems.elems) \sqsubseteq SuccessItems
    /\ UploadFilesDone => SeqToBag(mediaItems.elems) = SuccessItems

C1_Witness ==
    /\ UploadFilesDone
    /\ Len(filepaths) = 3
    /\ Len(mediaItems.elems) = 2
    /\ Failures # {}

\* C2: at most 3 UploadFile calls have started and not yet returned.
C2_AtMostThreeInFlight ==
    /\ InFlight <= 3
    /\ BagCardinality(invoked) - BagCardinality(returned) <= 3

C2_Witness ==
    /\ InFlight = 3
    /\ uploadQueue # <<>>

\* C3: under fair scheduling UploadFiles terminates: all workers exit, the result
\* channel is closed and the collector returns.
Terminated ==
    /\ UploadFilesDone
    /\ \A w \in Workers : wpc[w] = "done"
    /\ supPc = "done"
    /\ aggregateClosed

C3_Terminates == <>Terminated

C3_Witness ==
    /\ Terminated
    /\ Len(filepaths) = 1
    /\ Failures # {}

\* C4: the result channel is closed at most once and only after every worker has
\* finished, no goroutine panics on it, and when UploadFiles returns it has been
\* closed once and the result is every published item, in order.
C4_CloseAfterWorkers ==
    /\ closes <= 1
    /\ aggregateClosed => \A w \in Workers : wpc[w] = "done"
    /\ \A w \in Workers : wpc[w] # "panic"
    /\ supPc # "panic"
    /\ UploadFilesDone =>
          /\ closes = 1
          /\ aggregateQueue = <<>>
          /\ mediaItems.elems = published

C4_Witness ==
    /\ UploadFilesDone
    /\ closes = 1
    /\ Len(published) = 3

\* C5: every input path is received by one worker and UploadFile is called on it
\* once: the paths received so far and the paths still queued are together the
\* input, and when UploadFiles returns every input path has been called and has
\* returned once, whatever failed.
C5_EachPathUploadedOnce ==
    /\ invoked \sqsubseteq SeqToBag(filepaths)
    /\ uploadQueueClosed => invoked (+) SeqToBag(uploadQueue) = SeqToBag(filepaths)
    /\ UploadFilesDone =>
          /\ invoked = SeqToBag(filepaths)
          /\ ReturnedPaths = SeqToBag(filepaths)

C5_Witness ==
    /\ UploadFilesDone
    /\ Len(filepaths) = 3
    /\ Cardinality(Failures) >= 2
    /\ Successes # {}

\* C6: UploadFiles returns a slice that is not nil, and an empty one when no upload
\* succeeded; no goroutine of it panics.
C6_EmptyResultNotNil ==
    /\ UploadFilesDone =>
          /\ ~mediaItems.isNil
          /\ Successes = {} => mediaItems = MakeSlice
    /\ \A w \in Workers : wpc[w] # "panic"

C6_Witness ==
    /\ UploadFilesDone
    /\ Len(filepaths) = 3
    /\ BagCardinality(returned) = 3
    /\ Successes = {}
    /\ mediaItems.elems = <<>>

\* C7: Append returns an error exactly when BatchCreate returned one, and then that
\* error, whatever the status codes of the results.
C7_AppendFailsIffCallFails ==
    apc = "done" =>
        /\ (appendErr # Nil) <=> (callErr # Nil)
        /\ appendErr = callErr

C7_Witness ==
    /\ apc = "done"
    /\ callErr = Nil
    /\ Len(batch) = 2
    /\ \A n \in 1..Len(batch) : batch[n].Status.Code # 0
    /\ appendErr = Nil

\* C8: a logged result whose token is the token of a submitted item is logged as
\* skipped, under the description of a submitted item with that token.
HasToken(items, token) == \E n \in 1..Len(items) : items[n].UploadToken = token

C8_SkipNamesItemOfToken ==
    \A a \in Range(attributed) :
        LET result == batch[a.index]
        IN  HasToken(newMediaItems, result.UploadToken) =>
                /\ a.line[1] = "Skipped %s: %s (%d)"
                /\ \E n \in 1..Len(newMediaItems) :
                      /\ newMediaItems[n].UploadToken = result.UploadToken
                      /\ newMediaItems[n].Description = a.line[2]

C8_Witness ==
    /\ newMediaItems = << [Description |-> <<"a">>, UploadToken |-> "t1"],
                          [Description |-> <<"b">>, UploadToken |-> "t2"] >>
    /\ \E a \in Range(attributed) :
          /\ batch[a.index].UploadToken = "t2"
          /\ batch[a.index].Status.Code = 5
          /\ a.line[2] = <<"b">>

\* C9: UploadFile returns an item exactly when the file opened, the request was
\* built, the transfer completed, the body was read and the status is 200; the
\* item then has the response body as token and the path's last element as
\* description; otherwise it returns an error and no item; and calls failing at
\* different stages return different errors.
Succeeded(env) ==
    env.opened /\ env.built /\ env.sent /\ env.read /\ env.status = 200

FailStage(env) ==
    IF ~env.opened THEN "open"
    ELSE IF ~env.built THEN "request"
    ELSE IF ~env.sent THEN "transport"
    ELSE IF ~env.read THEN "read"
    ELSE "status"

LastElement(p) ==
    LET slashes == { n \in 1..Len(p) : p[n] = "/" }
        from == IF slashes = {} THEN 1
                ELSE 1 + CHOOSE n \in slashes : \A m \in slashes : m <= n
    IN  SubSeq(p, from, Len(p))

C10_HandlesClosedOnReturn ==
    \A w \in Workers :
        /\ openFiles[w] = IF wpc[w] \in { "newreq", "do", "read" } THEN 1 ELSE 0
        /\ openBodies[w] = IF wpc[w] = "read" THEN 1 ELSE 0

C10_Witness ==
    /\ \E r \in Successes : TRUE
    /\ \E r \in Failures : FailStage(r.env) = "read"
    /\ \E r \in Failures : FailStage(r.env) = "transport"
    /\ \A w \in Workers : ~InUploadFile(w) /\ openFiles[w] = 0 /\ openBodies[w] = 0


\* C11: the log holds one upload-error line per failed UploadFile call and none
\* for a successful one, and when UploadFiles returns the returned items and the
\* upload-error lines are together as many as the input paths.
UploadErrorLines ==
    { l \in DOMAIN log : l[1] = "Error while uploading file %s: %s" }

C11_OneErrorLinePerFailure ==
    /\ SumOver(log, UploadErrorLines) = SumOver(returned, Failures)
    /\ \A l \in UploadErrorLines :
          log[l] = SumOver(returned, { r \in Failures : r.path = l[2] /\ r.err[1] = l[3] })
    /\ UploadFilesDone =>
          Len(mediaItems.elems) + SumOver(log, UploadErrorLines) = Len(filepaths)

C11_Witness ==
    /\ UploadFilesDone
    /\ Len(filepaths) = 3
    /\ Len(mediaItems.elems) = 1
    /\ SumOver(log, UploadErrorLines) = 2


\* C12: the description of a staged item is the base name of its source path,
\* whether the path separates its elements with "/" or with "\".
Separators == { "/", "\\" }

FileLike(p) == p # <<>> /\ p[Len(p)] \notin Separators

BaseName(p) ==
    LET seps == { n \in 1..Len(p) : p[n] \in Separators }
        from == IF seps = {} THEN 1
                ELSE 1 + CHOOSE n \in seps : \A m \in seps : m <= n
    IN  SubSeq(p, from, Len(p))

C12_DescriptionIsBaseName ==
    (staged # Nil /\ FileLike(source)) => staged[1].Description = BaseName(source)


\* C13: Append calls BatchCreate once, also for an empty item list; the request
\* carries the submitted items in their order and the album's identifier when an
\* album was given, and no identifier when none was.
C13_OneRequestWithAllItems ==
    /\ apc = "call" => calls = <<>>
    /\ apc \in { "results", "done" } =>
          /\ Len(calls) = 1
          /\ calls[1].NewMediaItems = newMediaItems
          /\ album = Nil => calls[1].AlbumId = ""
          /\ album # Nil => calls[1].AlbumId = album[1].Id /\ calls[1].AlbumId # ""

C13_Witness ==
    /\ apc = "done"
    /\ newMediaItems = <<>>
    /\ album # Nil
    /\ Len(calls) = 1
    /\ calls[1].AlbumId = "album1"


\* C14: after a successful BatchCreate call Append has logged one line for each
\* result handled so far whose status code is not 0 and none for the others, so a
\* response with only zero codes logs nothing and returns no error; a failed call
\* logs no line.
NonZeroUpTo(n) == { m \in 1..n : batch[m].Status.Code # 0 }
LoggedIndexes == { attributed[n].index : n \in 1..Len(attributed) }

C14_OneLinePerNonZeroResult ==
    /\ apc = "call" => log = EmptyBag
    /\ callErr # Nil => log = EmptyBag
    /\ apc = "results" =>
          /\ BagCardinality(log) = Cardinality(NonZeroUpTo(resultIdx - 1))
          /\ Len(attributed) = Cardinality(NonZeroUpTo(resultIdx - 1))
          /\ LoggedIndexes = NonZeroUpTo(resultIdx - 1)
    /\ (apc = "done" /\ callErr = Nil) =>
          /\ BagCardinality(log) = Cardinality(NonZeroUpTo(Len(batch)))
          /\ Len(attributed) = Cardinality(NonZeroUpTo(Len(batch)))
          /\ LoggedIndexes = NonZeroUpTo(Len(batch))
          /\ NonZeroUpTo(Len(batch)) = {} => (log = EmptyBag /\ appendErr = Nil)

C14_Witness ==
    /\ apc = "done"
    /\ callErr = Nil
    /\ Len(batch) = 2
    /\ batch[1].Status.Code = 0
    /\ batch[2].Status.Code # 0
    /\ BagCardinality(log) = 1


\* C15: a result with a non-zero status code whose token no submitted item has is
\* logged with its message and code only; the results after it are handled as
\* well, and Append returns no error.
UnknownIndexes == { m \in NonZeroUpTo(Len(batch)) : ~HasToken(newMediaItems, batch[m].UploadToken) }

C15_UnknownTokenLoggedRaw ==
    /\ \A a \in Range(attributed) :
          a.index \in UnknownIndexes =>
              a.line = << "Error while adding files: %s (%d)",
                          batch[a.index].Status.Message, batch[a.index].Status.Code >>
    /\ (apc = "done" /\ callErr = Nil) =>
          /\ UnknownIndexes \subseteq LoggedIndexes
          /\ \A m \in UnknownIndexes :
                { n \in NonZeroUpTo(Len(batch)) : n > m } \subseteq LoggedIndexes
          /\ appendErr = Nil

C15_Witness ==
    /\ apc = "done"
    /\ Len(newMediaItems) = 1
    /\ Len(batch) = 2
    /\ UnknownIndexes = { 1 }
    /\ batch[2].Status.Code # 0
    /\ LoggedIndexes = { 1, 2 }
    /\ appendErr = Nil


\* C16: every input path is in the work queue and the queue is closed before a
\* worker is started: a started worker sees a closed queue holding all the paths
\* not yet taken, nothing is enqueued once a worker has started, and a pending
\* enqueue always finds room in the queue.
WorkerStarted == \E w \in Workers : wpc[w] # "none"

C16_State ==
    /\ WorkerStarted =>
          /\ uploadQueueClosed
          /\ pc # "enqueue"
          /\ invoked (+) SeqToBag(uploadQueue) = SeqToBag(filepaths)
    /\ (pc = "enqueue" /\ i <= Len(filepaths)) =>
          /\ ~uploadQueueClosed
          /\ Len(uploadQueue) < QueueCap
          /\ ENABLED Enqueue

C16_Step ==
    /\ WorkerStarted => Len(uploadQueue') <= Len(uploadQueue)
    /\ wpc' # wpc /\ ~WorkerStarted =>
          /\ uploadQueueClosed
          /\ uploadQueue = filepaths

C16_QueueFilledAndClosedFirst == []C16_State /\ [][C16_Step]_vars

C16_Witness ==
    /\ Len(filepaths) >= 2
    /\ uploadQueue = filepaths
    /\ uploadQueueClosed
    /\ \E w \in Workers : wpc[w] = "recv"


\* C17: what UploadFiles has collected, followed by what is still buffered in the
\* result channel, is the sequence of items in the order the workers sent them;
\* the sequence returned is that order, which need not be the order of the input.
C17_ResultInPublishOrder ==
    /\ mediaItems.elems \o aggregateQueue = published
    /\ UploadFilesDone => mediaItems.elems = published

C17_Witness ==
    /\ UploadFilesDone
    /\ Len(filepaths) = 2
    /\ Base(filepaths[1]) # Base(filepaths[2])
    /\ Len(mediaItems.elems) = 2
    /\ mediaItems.elems[1].Description = Base(filepaths[2])
    /\ mediaItems.elems[2].Description = Base(filepaths[1])


\* C18: the result channel never holds more items than its capacity
\* len(filepaths), and a worker about to send an item finds the channel open
\* with a free slot, whether or not the collector has received anything: the
\* items sent so far and the ones about to be sent are at most one per input path.
AboutToPublish(w) == wpc[w] = "returned" /\ wret[w].err = Nil

C18_PublishNeverBlocks ==
    /\ Len(aggregateQueue) <= AggregateCap
    /\ Len(published) + Cardinality({ w \in Workers : AboutToPublish(w) }) <= Len(filepaths)
    /\ \A w \in Workers :
          AboutToPublish(w) =>
              /\ ~aggregateClosed
              /\ Len(aggregateQueue) < AggregateCap

C18_Witness ==
    /\ Len(filepaths) >= 2
    /\ Len(aggregateQueue) = AggregateCap
    /\ mediaItems.elems = <<>>
    /\ \A w \in Workers : wpc[w] = "done"


\* C19: a path that occurs several times in the input is uploaded once per
\* occurrence, and each occurrence that succeeds has its own item in the result,
\* so the result holds as many items with the base name of a path as calls for
\* paths of that base name succeeded.
Occurrences(s, x) == Cardinality({ n \in 1..Len(s) : s[n] = x })
ItemsDescribed(d) == { n \in 1..Len(mediaItems.elems) : mediaItems.elems[n].Description = d }

C19_OneItemPerOccurrence ==
    \A p \in Range(filepaths) :
        /\ CopiesIn(p, invoked) <= Occurrences(filepaths, p)
        /\ UploadFilesDone =>
              /\ CopiesIn(p, invoked) = Occurrences(filepaths, p)
              /\ SumOver(returned, { r \in DOMAIN returned : r.path = p })
                     = Occurrences(filepaths, p)
              /\ Cardinality(ItemsDescribed(Base(p)))
                     = SumOver(returned, { r \in Successes : Base(r.path) = Base(p) })

C19_Witness ==
    /\ UploadFilesDone
    /\ \E p \in Range(filepaths) :
          /\ Occurrences(filepaths, p) = 2
          /\ Cardinality(ItemsDescribed(Base(p))) = 2


\* C20: several submitted items may carry the same upload token; a result with a
\* non-zero status code is then logged once, as skipped, with the description of
\* the first submitted item that carries its token, and without a description
\* when no submitted item carries it.
ItemsWithToken(t) == { n \in 1..Len(newMediaItems) : newMediaItems[n].UploadToken = t }
FirstWithToken(t) == CHOOSE n \in ItemsWithToken(t) : \A m \in ItemsWithToken(t) : n <= m

C20_SkipNamesFirstItemOfToken ==
    /\ \A a \in Range(attributed) :
          LET result == batch[a.index]
          IN  IF ItemsWithToken(result.UploadToken) # {}
              THEN a.line = << "Skipped %s: %s (%d)",
                               newMediaItems[FirstWithToken(result.UploadToken)].Description,
                               result.Status.Message, result.Status.Code >>
              ELSE a.line[1] = "Error while adding files: %s (%d)"
    /\ \A m, n \in 1..Len(attributed) :
          attributed[m].index = attributed[n].index => m = n
    /\ \A t \in ResultTokens :
          (findMediaItemByUploadToken(newMediaItems, t) = Nil) <=> (ItemsWithToken(t) = {})

C20_Witness ==
    /\ apc = "done"
    /\ Len(newMediaItems) = 2
    /\ newMediaItems[1].UploadToken = newMediaItems[2].UploadToken
    /\ newMediaItems[1].Description # newMediaItems[2].Description
    /\ \E a \in Range(attributed) :
          /\ batch[a.index].UploadToken = newMediaItems[1].UploadToken
          /\ a.line[2] = newMediaItems[1].Description

====
